---- MODULE Spec2Model ----
(***************************************************************************)
(* A model of chanjo's annotation pipeline (chanjo/annotator/core.py) and  *)
(* of its config initialisation (chanjo/config/core.py).                   *)
(*                                                                         *)
(* The pipeline is a lazy composition: nothing is read from the BED stream *)
(* at the call of pipeline(); every consumer request (next) pulls exactly  *)
(* what is needed to produce one more result.                              *)
(***************************************************************************)
EXTENDS Integers, Sequences, FiniteSets, TLC

VARIABLES
  cfg,          \* the arguments of pipeline(): cutoff, extension, contig_prepend, bp_threshold, bam_path
  bed_stream,   \* the input: a sequence of text lines
  pc,           \* "init" | "ready" | "done" | "error" | "config_error"
  bam,          \* the BAM handle: "closed" | "open"
  pos,          \* number of lines consumed from bed_stream
  group,        \* the Grouper's open group
  grouper_done, \* the Grouper has emitted its final group (or has raised)
  groups,       \* log: the groups the Grouper has emitted
  queries,      \* log: the queries the depth source has received
  slices_log,   \* log: for each processed group, the depth slices returned
  results,      \* the results yielded to the consumer
  requests,     \* number of results the consumer has requested
  user_data,    \* Config.user_data: a nested dict, as a set of [path, val] entries
  answers,      \* what questionnaire() returns: a sequence of <<dot_key, value>>
  cpc,          \* init_pipeline: "idle" | "returned" | "AttributeError"
  api_error,    \* the exception of the last direct set_value call, or "none"
  saved,        \* the config file: a sequence holding the last dump, if any
  save_count    \* number of Config.save calls

pvars == <<cfg, bed_stream, pc, bam, pos, group, grouper_done, groups, queries,
           slices_log, results, requests>>
cvars == <<user_data, answers, cpc, api_error, saved, save_count>>
vars == <<cfg, bed_stream, pc, bam, pos, group, grouper_done, groups, queries,
          slices_log, results, requests, user_data, answers, cpc, api_error,
          saved, save_count>>

----------------------------------------------------------------------------
(* Bounds *)

\* longest stream of arbitrary (unsorted, possibly malformed) lines
MaxRecords == 2
\* largest coordinate in an arbitrary line
MaxCoord == 1
\* longest stream of sorted, well-formed lines
MaxLen == 3
\* largest coordinate in a sorted, well-formed line
MaxPos == 2

----------------------------------------------------------------------------
(* Text *)

TAB == "\t"
NL == "\n"
DigitChars == <<"0", "1", "2", "3", "4", "5", "6", "7", "8", "9">>
Whitespace == {" ", TAB, NL}

Max(a, b) == IF a >= b THEN a ELSE b
Min(a, b) == IF a <= b THEN a ELSE b

RECURSIVE Str(_)
\* decimal representation of a natural number
Str(n) == IF n < 10 THEN <<DigitChars[n + 1]>>
          ELSE Str(n \div 10) \o <<DigitChars[(n % 10) + 1]>>

DigitVal(ch) == (CHOOSE i \in 1..10 : DigitChars[i] = ch) - 1

IsDigits(f) == Len(f) > 0 /\ \A i \in 1..Len(f) : \E d \in 1..10 : DigitChars[d] = f[i]

RECURSIVE ToInt(_)
\* int() of a string of digits
ToInt(f) == IF Len(f) = 1 THEN DigitVal(f[1])
            ELSE 10 * ToInt(SubSeq(f, 1, Len(f) - 1)) + DigitVal(f[Len(f)])

RECURSIVE rstrip(_)
\* str.rstrip: drop trailing whitespace
rstrip(line) == IF line # <<>> /\ line[Len(line)] \in Whitespace
                THEN rstrip(SubSeq(line, 1, Len(line) - 1))
                ELSE line

\* prepend(contig_prepend): the prefix goes in front of the line, that is of the contig
prepend(prefix, line) == prefix \o line

RECURSIVE split(_, _)
\* str.split(sep): the fields between separators (always at least one field)
split(line, sep) ==
  IF \E i \in 1..Len(line) : line[i] = sep
  THEN LET i == CHOOSE k \in 1..Len(line) :
                  line[k] = sep /\ \A j \in 1..(k - 1) : line[j] # sep
       IN <<SubSeq(line, 1, i - 1)>> \o split(SubSeq(line, i + 1, Len(line)), sep)
  ELSE <<line>>

----------------------------------------------------------------------------
(* Stages *)

NoInterval == [contig |-> <<>>, start |-> 0, end |-> 0]

\* utils.bed_to_interval: the first three fields make the Interval; fewer
\* fields, a non-numeric coordinate or start > end is a parse error
bed_to_interval(row) ==
  IF Len(row) < 3 \/ ~IsDigits(row[2]) \/ ~IsDigits(row[3])
  THEN [ok |-> FALSE, iv |-> NoInterval]
  ELSE LET s == ToInt(row[2])
           e == ToInt(row[3])
       IN IF s > e THEN [ok |-> FALSE, iv |-> NoInterval]
          ELSE [ok |-> TRUE, iv |-> [contig |-> row[1], start |-> s, end |-> e]]

\* stages.extend_interval: pad both ends, clamp the start at 0, reject an
\* interval the (negative) extension would invert
extend_interval(iv, extension) ==
  LET s == Max(0, iv.start - extension)
      e == iv.end + extension
  IN IF s > e THEN [ok |-> FALSE, iv |-> NoInterval]
     ELSE [ok |-> TRUE, iv |-> [contig |-> iv.contig, start |-> s, end |-> e]]

RECURSIVE MinStart(_)
MinStart(g) == IF Len(g) = 1 THEN g[1].start
               ELSE Min(g[1].start, MinStart(Tail(g)))

RECURSIVE MaxEnd(_)
MaxEnd(g) == IF Len(g) = 1 THEN g[1].end
             ELSE Max(g[1].end, MaxEnd(Tail(g)))

\* stages.group_intervals, the test of one incoming interval against the open
\* group: the group is empty, or same contig and new_end - min_start <= bp_threshold
Fits(g, iv, bp_threshold) ==
  \/ g = <<>>
  \/ /\ iv.contig = g[1].contig
     /\ iv.end - MinStart(g) <= bp_threshold

\* the depth source: per-base depth of a BAM file (external data, fixed per file)
Depth(bam_path, contig, p) ==
  LET shift == IF contig # <<>> /\ contig[Len(contig)] = "2" THEN 2 ELSE 0
  IN IF bam_path = "a.bam"
     THEN (((p * (p + 1)) \div 2) + shift + Len(contig)) % 5
     ELSE (p + shift) % 3

\* BamFile query: one depth value per base of [start, end)
Query(bam_path, contig, start, end) ==
  [i \in 1..Max(0, end - start) |-> Depth(bam_path, contig, start + i - 1)]

\* stages.process_interval_group: one query over the union span of the group,
\* then one slice per member, cut at the member's offset
process_interval_group(bam_path, g) ==
  LET lo == MinStart(g)
      hi == MaxEnd(g)
      depths == Query(bam_path, g[1].contig, lo, hi)
  IN [queries |-> <<[contig |-> g[1].contig, start |-> lo, end |-> hi]>>,
      depths |-> depths,
      slices |-> [m \in 1..Len(g) |->
                   [interval |-> g[m],
                    depths |-> SubSeq(depths, g[m].start - lo + 1, g[m].end - lo)]]]

RECURSIVE Sum(_)
Sum(s) == IF s = <<>> THEN 0 ELSE Head(s) + Sum(Tail(s))

\* stages.calculate_metrics: mean depth and the share of bases at or above the
\* threshold, as fractions <<numerator, denominator>>; both 0 for an empty slice
calculate_metrics(slice, threshold) ==
  LET n == Len(slice.depths)
      passed == Cardinality({i \in 1..n : slice.depths[i] >= threshold})
  IN [interval |-> slice.interval,
      coverage |-> IF n = 0 THEN <<0, 1>> ELSE <<Sum(slice.depths), n>>,
      completeness |-> IF n = 0 THEN <<0, 1>> ELSE <<passed, n>>]

\* mutant: the cutoff is not checked
ValidConfig_threshold_only(c) == c.bp_threshold > 0

\* the configuration the stages accept: a positive bp_threshold (Grouper) and a
\* non-negative cutoff (Metric Calculator)
ValidConfig(c) == c.bp_threshold > 0 /\ c.cutoff >= 0

----------------------------------------------------------------------------
(* The pipeline: pipe(bed_stream, map(...), ..., group_intervals, ..., concat, map(...)) *)

\* the default of pipeline's bp_threshold argument
DefaultBpThreshold == 17000
\* the default of pipeline's cutoff argument
DefaultCutoff == 10

\* rstrip, prepend, split and bed_to_interval, mapped over each line
ParseLine(line) ==
  bed_to_interval(split(prepend(cfg.contig_prepend, rstrip(line)), TAB))

\* mutant: the extension argument is not passed on
Extended_default(iv) == extend_interval(iv, 0)

\* map(extend_interval(extension=extension))
Extended(iv) == extend_interval(iv, cfg.extension)

\* the composed per-line maps, applied to one line
ReadInterval(line) ==
  LET parsed == ParseLine(line)
  IN IF parsed.ok THEN Extended(parsed.iv) ELSE parsed

RECURSIVE Upstream_skipping(_)
\* mutant: a line that fails to parse or extend is skipped
Upstream_skipping(p) ==
  IF p >= Len(bed_stream)
  THEN [kind |-> "stop", pos |-> p, iv |-> NoInterval]
  ELSE LET r == ReadInterval(bed_stream[p + 1])
       IN IF r.ok THEN [kind |-> "item", pos |-> p + 1, iv |-> r.iv]
          ELSE Upstream_skipping(p + 1)

\* next() on the lazy per-line maps with p lines consumed: the end of the
\* stream, the next interval, or the exception of the stage that failed
Upstream(p) ==
  IF p >= Len(bed_stream)
  THEN [kind |-> "stop", pos |-> p, iv |-> NoInterval]
  ELSE LET r == ReadInterval(bed_stream[p + 1])
       IN IF r.ok THEN [kind |-> "item", pos |-> p + 1, iv |-> r.iv]
          ELSE [kind |-> "raise", pos |-> p + 1, iv |-> NoInterval]

RECURSIVE group_intervals(_, _, _)
\* stages.group_intervals, resumed with p lines consumed and open group g,
\* run until it yields a group, ends, or an upstream stage raises
group_intervals(p, g, bp_threshold) ==
  LET u == Upstream(p)
  IN IF u.kind = "stop"
     THEN [status |-> IF g = <<>> THEN "exhausted" ELSE "group",
           pos |-> u.pos, emitted |-> g, open |-> <<>>, finished |-> TRUE]
     ELSE IF u.kind = "raise"
     THEN [status |-> "error",
           pos |-> u.pos, emitted |-> <<>>, open |-> <<>>, finished |-> TRUE]
     ELSE IF Fits(g, u.iv, bp_threshold)
     THEN group_intervals(u.pos, Append(g, u.iv), bp_threshold)
     ELSE [status |-> "group",
           pos |-> u.pos, emitted |-> g, open |-> <<u.iv>>, finished |-> FALSE]

\* mutant: bp_threshold is not passed on, the default applies
GroupStage_default(p, g) == group_intervals(p, g, DefaultBpThreshold)

\* mutant: the cutoff is passed as the threshold
GroupStage_cutoff(p, g) == group_intervals(p, g, cfg.cutoff)

\* group_intervals(bp_threshold=bp_threshold)
GroupStage(p, g) == group_intervals(p, g, cfg.bp_threshold)

\* mutant: the depth of every member is read on its own
ReadCoverage_per_interval(g) ==
  LET each == [m \in 1..Len(g) |-> process_interval_group(cfg.bam_path, <<g[m]>>)]
  IN [queries |-> [m \in 1..Len(g) |-> each[m].queries[1]],
      depths |-> <<>>,
      slices |-> [m \in 1..Len(g) |-> each[m].slices[1]]]

\* map(process_interval_group(bam)), applied to one group
ReadCoverage(g) == process_interval_group(cfg.bam_path, g)

RECURSIVE concat_first(_)
\* mutant: only the first item of each inner sequence
concat_first(seqs) ==
  IF seqs = <<>> THEN <<>> ELSE <<Head(seqs)[1]>> \o concat_first(Tail(seqs))

RECURSIVE concat_reversed(_)
\* mutant: the items of each inner sequence in reverse
concat_reversed(seqs) ==
  IF seqs = <<>> THEN <<>>
  ELSE [i \in 1..Len(Head(seqs)) |-> Head(seqs)[Len(Head(seqs)) + 1 - i]]
         \o concat_reversed(Tail(seqs))

RECURSIVE concat(_)
\* toolz.concat: the items of each inner sequence, in order
concat(seqs) == IF seqs = <<>> THEN <<>> ELSE Head(seqs) \o concat(Tail(seqs))

\* map(calculate_metrics(threshold=cutoff)), applied to one slice
Metrics(slice) == calculate_metrics(slice, cfg.cutoff)

\* mutant: the per-line maps are eager, the whole stream is read at the call
pipeline_eager ==
  /\ pc = "init"
  /\ bam' = "open"
  /\ pc' = IF ValidConfig(cfg) THEN "ready" ELSE "config_error"
  /\ pos' = Len(bed_stream)
  /\ UNCHANGED <<cfg, bed_stream, group, grouper_done, groups, queries,
                 slices_log, results, requests>>
  /\ UNCHANGED cvars

\* the call pipeline(...): connect to the BAM file, build the stages (which
\* reject an invalid configuration), compose them lazily
pipeline ==
  /\ pc = "init"
  /\ bam' = "open"
  /\ pc' = IF ValidConfig(cfg) THEN "ready" ELSE "config_error"
  /\ UNCHANGED <<cfg, bed_stream, pos, group, grouper_done, groups, queries,
                 slices_log, results, requests>>
  /\ UNCHANGED cvars

\* one next() of the consumer on the pipeline's result
next ==
  /\ pc = "ready"
  /\ requests' = requests + 1
  /\ LET flat == concat(slices_log)
     IN IF Len(results) < Len(flat)
        THEN \* the current group still has slices to yield
             /\ results' = Append(results, Metrics(flat[Len(results) + 1]))
             /\ UNCHANGED <<pc, pos, group, grouper_done, groups, queries, slices_log>>
        ELSE IF grouper_done
        THEN \* StopIteration
             /\ pc' = "done"
             /\ UNCHANGED <<pos, group, grouper_done, groups, queries, slices_log, results>>
        ELSE LET r == GroupStage(pos, group)
             IN /\ pos' = r.pos
                /\ group' = r.open
                /\ grouper_done' = r.finished
                /\ IF r.status = "group"
                   THEN LET got == ReadCoverage(r.emitted)
                            flat2 == concat(Append(slices_log, got.slices))
                        IN /\ groups' = Append(groups, r.emitted)
                           /\ queries' = queries \o got.queries
                           /\ slices_log' = Append(slices_log, got.slices)
                           /\ IF Len(results) < Len(flat2)
                              THEN /\ results' = Append(results, Metrics(flat2[Len(results) + 1]))
                                   /\ pc' = "ready"
                              ELSE /\ results' = results
                                   /\ pc' = "ready"
                   ELSE /\ pc' = IF r.status = "error" THEN "error" ELSE "done"
                        /\ UNCHANGED <<groups, queries, slices_log, results>>
  /\ UNCHANGED <<cfg, bed_stream, bam>>
  /\ UNCHANGED cvars

----------------------------------------------------------------------------
(* Config *)

\* a nested dict is a set of entries [path, val]: path is the sequence of keys
\* (strings, as sequences of characters) leading to the entry, val is a scalar
\* or DICT for a nested section
DICT == "{}"

Has(d, path) == \E e \in d : e.path = path
Lookup(d, path) == (CHOOSE e \in d : e.path = path).val
IsPrefix(a, b) == Len(a) <= Len(b) /\ SubSeq(b, 1, Len(a)) = a

\* section[key] = value, where path is the section's path and the key;
\* whatever the key held before (a nested section included) is replaced
Assign(d, path, value) ==
  {e \in d : ~IsPrefix(path, e.path)} \cup {[path |-> path, val |-> value]}

RECURSIVE Walk(_, _, _)
\* the while loop of _resolve_key over the key parts left, from section `at`:
\* a missing section is created; a scalar in the way is entered like a section
\* and fails at the next use
Walk(d, at, parts) ==
  IF Len(parts) = 1
  THEN [data |-> d, section |-> at, key |-> parts[1], raised |-> "none"]
  ELSE LET path == Append(at, Head(parts))
           d2 == IF Has(d, path) THEN d ELSE Assign(d, path, DICT)
       IN IF Lookup(d2, path) # DICT
          THEN [data |-> d2, section |-> path, key |-> parts[Len(parts)], raised |-> "TypeError"]
          ELSE Walk(d2, path, Tail(parts))

\* _resolve_key(dot_key, base): the section the dot key names and the last key part
resolve_key(dot_key, base) == Walk(base, <<>>, split(dot_key, "."))

\* set_value(base, dot_key, value)
set_value(base, dot_key, value) ==
  LET r == resolve_key(dot_key, base)
  IN IF r.raised # "none" THEN [data |-> r.data, raised |-> r.raised]
     ELSE [data |-> Assign(r.data, Append(r.section, r.key), value), raised |-> "none"]

\* config.set(base, dot_key, value): class Config(dict) defines __init__, load
\* and save only, and dict has no attribute `set`
config_set(base, dot_key, value) ==
  [data |-> base, raised |-> "AttributeError"]

RECURSIVE SetAll(_, _)
\* the for loop of init_pipeline over the questionnaire's answers
SetAll(d, todo) ==
  IF todo = <<>> THEN [data |-> d, raised |-> "none"]
  ELSE LET r == config_set(d, Head(todo)[1], Head(todo)[2])
       IN IF r.raised # "none" THEN r ELSE SetAll(r.data, Tail(todo))

\* init_pipeline(program, config, questions)
init_pipeline ==
  /\ cpc = "idle"
  /\ LET r == SetAll(user_data, answers)
     IN /\ user_data' = r.data
        /\ IF r.raised = "none"
           THEN /\ saved' = <<r.data>>
                /\ save_count' = save_count + 1
                /\ cpc' = "returned"
           ELSE /\ cpc' = r.raised
                /\ UNCHANGED <<saved, save_count>>
  /\ UNCHANGED <<answers, api_error>>
  /\ UNCHANGED pvars

DotKeys == {<<"a">>, <<"b">>, <<"a", ".", "b">>, <<"b", ".", "a">>}
Values == {"v1", "v2"}

\* a direct call set_value(config.user_data, dot_key, value)
set_value_call ==
  /\ cpc = "idle"
  /\ \E k \in DotKeys, v \in Values :
       LET r == set_value(user_data, k, v)
       IN /\ user_data' = r.data
          /\ api_error' = r.raised
  /\ UNCHANGED <<answers, cpc, saved, save_count>>
  /\ UNCHANGED pvars

----------------------------------------------------------------------------
(* Inputs and specifications *)

Contigs == {<<"1">>, <<"2">>}

\* the BED line of an interval, as a file handle yields it
Line(contig, start, end) ==
  contig \o <<TAB>> \o Str(start) \o <<TAB>> \o Str(end) \o <<NL>>

\* a line with two fields, a line with a non-numeric start, a line with a name field
OddLines == {<<"1", TAB, "0", NL>>,
             <<"1", TAB, "x", TAB, "1", NL>>,
             <<"1", TAB, "0", TAB, "1", TAB, "x", NL>>}

AnyLines == {Line(c, s, e) : c \in Contigs, s \in 0..MaxCoord, e \in 0..MaxCoord}
              \cup OddLines

AnyStreams == UNION {[1..n -> AnyLines] : n \in 0..MaxRecords}

Intervals == {iv \in [contig : Contigs, start : 0..MaxPos, end : 0..MaxPos] :
                iv.start <= iv.end}

\* contig-major, position-ascending
InOrder(ivs) ==
  \A i \in 1..(Len(ivs) - 1) :
    \/ /\ ivs[i].contig = ivs[i + 1].contig
       /\ ivs[i].start <= ivs[i + 1].start
    \/ /\ ivs[i].contig = <<"1">>
       /\ ivs[i + 1].contig = <<"2">>

SortedRuns == {ivs \in UNION {[1..n -> Intervals] : n \in 0..MaxLen} : InOrder(ivs)}

AnyConfigs == [cutoff : {-1, 1}, extension : {-1, 0, 1},
               contig_prepend : {<<>>, <<"c">>}, bp_threshold : {0, 1},
               bam_path : {"b.bam"}]

SortedConfigs == [cutoff : {1, 2}, extension : {0},
                  contig_prepend : {<<>>}, bp_threshold : {1, 2},
                  bam_path : {"a.bam"}]

IdleConfig == [cutoff |-> DefaultCutoff, extension |-> 0, contig_prepend |-> <<>>,
               bp_threshold |-> DefaultBpThreshold, bam_path |-> "a.bam"]

\* before pipeline() is called
Fresh ==
  /\ pc = "init"
  /\ bam = "closed"
  /\ pos = 0
  /\ group = <<>>
  /\ grouper_done = FALSE
  /\ groups = <<>>
  /\ queries = <<>>
  /\ slices_log = <<>>
  /\ results = <<>>
  /\ requests = 0

NoConfigRun ==
  /\ user_data = {}
  /\ answers = <<>>
  /\ cpc = "idle"
  /\ api_error = "none"
  /\ saved = <<>>
  /\ save_count = 0

Init ==
  /\ cfg \in AnyConfigs
  /\ bed_stream \in AnyStreams
  /\ Fresh
  /\ NoConfigRun

InitSorted ==
  /\ cfg \in SortedConfigs
  /\ bed_stream \in {[i \in 1..Len(ivs) |-> Line(ivs[i].contig, ivs[i].start, ivs[i].end)] :
                       ivs \in SortedRuns}
  /\ Fresh
  /\ NoConfigRun

\* the answers the questionnaire may return: distinct dot keys, in dict order
AnswerLists ==
  {<<>>} \cup {<<<<k, v>>>> : k \in DotKeys, v \in Values}
         \cup {<<<<k1, "v1">>, <<k2, "v2">>>> : k1 \in {<<"a">>}, k2 \in {<<"b", ".", "a">>}}

InitConfig ==
  /\ cfg = IdleConfig
  /\ bed_stream = <<>>
  /\ Fresh
  /\ user_data \in {{}, {[path |-> <<<<"a">>>>, val |-> "v2"]}}
  /\ answers \in AnswerLists
  /\ cpc = "idle"
  /\ api_error = "none"
  /\ saved = <<>>
  /\ save_count = 0

Next == pipeline \/ next

NextConfig == init_pipeline \/ set_value_call

Spec == Init /\ [][Next]_vars

SpecSorted == InitSorted /\ [][Next]_vars

SpecConfig == InitConfig /\ [][NextConfig]_vars

----------------------------------------------------------------------------
(* Properties *)

\* the intervals the input stream stands for, after parsing and extension
StreamIntervals == [i \in 1..Len(bed_stream) |-> ReadInterval(bed_stream[i]).iv]

\* the intervals that have reached the Grouper, in order of arrival
Received == concat(groups) \o group

\* equality of two fractions <<numerator, denominator>>
RatEq(a, b) == a[1] * b[2] = b[1] * a[2]

\* a record with too few fields, a non-numeric start or end, or start > end
Malformed(line) ==
  LET row == split(rstrip(line), TAB)
  IN \/ Len(row) < 3
     \/ ~IsDigits(row[2])
     \/ ~IsDigits(row[3])
     \/ ToInt(row[2]) > ToInt(row[3])

Span(ivs) == MaxEnd(ivs) - MinStart(ivs)

OneContig(g) == \A m \in 1..Len(g) : g[m].contig = g[1].contig

\* C1: the results are, in order, the parsed and extended intervals of the
\* records read so far, one result per record, none dropped, duplicated or
\* moved; a run that completes has emitted one result for every record, and a
\* stream whose records all parse and extend never ends in an error.
C1_OneResultPerRecordInOrder ==
  /\ Len(results) <= Len(bed_stream)
  /\ \A i \in 1..Len(results) :
       /\ ReadInterval(bed_stream[i]).ok
       /\ results[i].interval = StreamIntervals[i]
  /\ pc = "done" => Len(results) = Len(bed_stream)
  /\ (\A i \in 1..Len(bed_stream) : ReadInterval(bed_stream[i]).ok) => pc # "error"

\* C1 witness: a completed run over two records delivered out of position
\* order, batched into one group, and emitted in input order
C1_Witness ==
  /\ pc = "done"
  /\ Len(results) = 2
  /\ Len(groups) = 1
  /\ results[1].interval.start > results[2].interval.start

\* C2 as stated: every emitted group is non-empty, on one contig, and spans at
\* most bp_threshold, also when one interval is itself longer than bp_threshold.
C2_Original ==
  \A k \in 1..Len(groups) :
    /\ groups[k] # <<>>
    /\ OneContig(groups[k])
    /\ Span(groups[k]) <= cfg.bp_threshold

\* C2 amended: every emitted group is non-empty and on one contig, and spans
\* at most bp_threshold whenever its first member is itself no longer than
\* bp_threshold.
C2_GroupInvariant ==
  \A k \in 1..Len(groups) :
    /\ groups[k] # <<>>
    /\ OneContig(groups[k])
    /\ (groups[k][1].end - groups[k][1].start <= cfg.bp_threshold
          => Span(groups[k]) <= cfg.bp_threshold)

\* C2 witness: two groups emitted, one of them holding two intervals within
\* the threshold
C2_Witness ==
  /\ Len(groups) >= 2
  /\ \E k \in 1..Len(groups) :
       /\ Len(groups[k]) = 2
       /\ groups[k][2].end > groups[k][1].end
       /\ Span(groups[k]) = cfg.bp_threshold

\* C3: every emitted (coverage, completeness) pair equals the pair computed
\* from the interval's own isolated depth query.
C3_BatchingNotObservable ==
  \A i \in 1..Len(results) :
    LET iv == StreamIntervals[i]
        alone == calculate_metrics(
                   [interval |-> iv,
                    depths |-> Query(cfg.bam_path, iv.contig, iv.start, iv.end)],
                   cfg.cutoff)
    IN /\ RatEq(results[i].coverage, alone.coverage)
       /\ RatEq(results[i].completeness, alone.completeness)

\* C3 witness: a result emitted for the second member of a group, a non-empty
\* interval that starts after the group's start
C3_Witness ==
  /\ Len(groups) >= 1
  /\ Len(groups[1]) >= 2
  /\ groups[1][2].start > groups[1][1].start
  /\ groups[1][2].end > groups[1][2].start
  /\ Len(results) >= 2
  /\ results[2].coverage[1] > 0

C5_MalformedRecordFatal ==
  \A i \in 1..pos :
    Malformed(bed_stream[i])
      => /\ pc = "error"
         /\ pos = i
         /\ Len(results) < i

\* C5 witness: the run has failed at a malformed second record
C5_Witness ==
  /\ pc = "error"
  /\ pos = 2
  /\ ~Malformed(bed_stream[1])
  /\ Malformed(bed_stream[2])

\* C6 as stated, for the run of each contig once the Grouper has finished: one
\* group when the run's span is within bp_threshold, at least two groups when
\* bp_threshold is smaller than the span, and the groups concatenate to the run.
C6_Original ==
  (grouper_done /\ pc # "error") =>
    \A c \in Contigs :
      LET OnContig(iv) == iv.contig = c
          GroupOnContig(g) == g[1].contig = c
          run == SelectSeq(StreamIntervals, OnContig)
          parts == SelectSeq(groups, GroupOnContig)
      IN run # <<>> =>
           /\ Span(run) <= cfg.bp_threshold => Len(parts) = 1
           /\ cfg.bp_threshold < Span(run) => Len(parts) >= 2
           /\ concat(parts) = run

\* C6 amended: one group when the run's span is within bp_threshold; at least
\* two groups when some interval after the first ends more than bp_threshold
\* past the start of the run; and the groups concatenate to the run.
C6_GroupingCorrect ==
  (grouper_done /\ pc # "error") =>
    \A c \in Contigs :
      LET OnContig(iv) == iv.contig = c
          GroupOnContig(g) == g[1].contig = c
          run == SelectSeq(StreamIntervals, OnContig)
          parts == SelectSeq(groups, GroupOnContig)
      IN run # <<>> =>
           /\ Span(run) <= cfg.bp_threshold => Len(parts) = 1
           /\ (\E i \in 2..Len(run) : run[i].end - run[1].start > cfg.bp_threshold)
                => Len(parts) >= 2
           /\ concat(parts) = run

\* C6 witness: a finished run of three intervals on one contig, wider than the
\* threshold, split into a group of two and a group of one
C6_Witness ==
  /\ grouper_done
  /\ Len(bed_stream) = 3
  /\ OneContig(StreamIntervals)
  /\ cfg.bp_threshold < Span(StreamIntervals)
  /\ Len(groups) = 2
  /\ Len(groups[1]) = 2

\* C7: before the first request nothing has been read and no query issued, and
\* lines are read and queries issued only within a request of the consumer.
C7_PullBased ==
  /\ [](requests = 0 => (pos = 0 /\ queries = <<>>))
  /\ [][(pos' # pos \/ queries' # queries) => requests' = requests + 1]_vars

\* C7 witness: after one request, one query has been issued and the third
\* line of the stream has not been read
C7_Witness ==
  /\ requests = 1
  /\ pc = "ready"
  /\ Len(bed_stream) = 3
  /\ pos = 2
  /\ Len(queries) = 1
  /\ Len(results) = 1

\* C8: the depth source has received one query per emitted group, over the
\* group's contig and union span, and each group got back one slice per member,
\* in member order, holding the end - start depth values found at offset
\* start - min_start of the query's result.
C8_OneQueryPerGroup ==
  /\ Len(queries) = Len(groups)
  /\ Len(slices_log) = Len(groups)
  /\ \A k \in 1..Len(groups) :
       LET g == groups[k]
           lo == CHOOSE s \in {g[m].start : m \in 1..Len(g)} :
                   \A m \in 1..Len(g) : s <= g[m].start
           hi == CHOOSE e \in {g[m].end : m \in 1..Len(g)} :
                   \A m \in 1..Len(g) : e >= g[m].end
           answer == Query(cfg.bam_path, g[1].contig, lo, hi)
       IN /\ queries[k] = [contig |-> g[1].contig, start |-> lo, end |-> hi]
          /\ Len(slices_log[k]) = Len(g)
          /\ \A m \in 1..Len(g) :
               /\ slices_log[k][m].interval = g[m]
               /\ Len(slices_log[k][m].depths) = g[m].end - g[m].start
               /\ \A t \in 1..(g[m].end - g[m].start) :
                    slices_log[k][m].depths[t] = answer[g[m].start - lo + t]

\* C8 witness: two groups processed, one of them with a second member cut
\* from a positive offset of the query's result
C8_Witness ==
  /\ Len(queries) = 2
  /\ \E k \in 1..Len(groups) :
       /\ Len(groups[k]) >= 2
       /\ groups[k][2].start > groups[k][1].start
       /\ groups[k][2].end > groups[k][2].start

\* C9: every interval that has reached the Grouper has 0 <= start <= end,
\* start = max(0, start - extension) and end = end + extension of its record;
\* a record the extension would invert has ended the run in an error.
C9_ExtenderInvariant ==
  /\ \A j \in 1..Len(Received) :
       LET o == ParseLine(bed_stream[j]).iv
           r == Received[j]
       IN /\ 0 <= r.start
          /\ r.start <= r.end
          /\ r.start = Max(0, o.start - cfg.extension)
          /\ r.end = o.end + cfg.extension
  /\ \A j \in 1..pos :
       LET p == ParseLine(bed_stream[j])
       IN (p.ok /\ Max(0, p.iv.start - cfg.extension) > p.iv.end + cfg.extension)
            => (pc = "error" /\ pos = j)

\* C9 witness: the first record parsed, and the negative extension that would
\* invert it has ended the run before anything reached the Grouper
C9_Witness ==
  /\ pc = "error"
  /\ cfg.extension < 0
  /\ pos = 1
  /\ ParseLine(bed_stream[1]).ok
  /\ Received = <<>>

\* C10 as stated: once init_pipeline has run, it has returned, every answer's
\* value is stored at the path of its dot key, and the config was saved once,
\* holding the updated user data.
C10_InitPipelineStoresAndSaves ==
  cpc # "idle" =>
    /\ cpc = "returned"
    /\ \A i \in 1..Len(answers) :
         LET path == split(answers[i][1], ".")
         IN Has(user_data, path) /\ Lookup(user_data, path) = answers[i][2]
    /\ save_count = 1
    /\ saved = <<user_data>>

====
